---- MODULE Spec2Model ----
(***************************************************************************)
(* PSON Encoder (src/src/PSON/Encoder.ts) as a state machine.              *)
(*                                                                         *)
(* State: one Encoder instance (dict, next, progressive) and the byte sink *)
(* of its latest encode call.  One action, EncodeCall, is one call of      *)
(* Encoder.encode: the recursion of _encodeValue is the operator           *)
(* encodeValue, which threads the encoder's state and the sink's write log *)
(* through the value.  The sink (bytebuffer) is outside the repository: a  *)
(* write either appends a token to the log or fails (throws).              *)
(***************************************************************************)
EXTENDS Integers, Sequences, FiniteSets, TLC

\* ----------------------------------------------------------------- bounds
\* Width, in bits, of the integral Numbers given to encode (two's complement).
NumBits == 34
\* Number of encode calls made on one Encoder.
MaxCalls == 2
\* Largest write (counted from 1 within a call) at which the sink may fail.
MaxFail == 7

\* ------------------------------------------------------ tag bytes (./T)
MAX == 239
NULL == 240
T_TRUE == 241
T_FALSE == 242
EOBJECT == 243
EARRAY == 244
ESTRING == 245
OBJECT == 246
ARRAY == 247
INTEGER == 248
LONG == 249
FLOAT == 250
DOUBLE == 251
T_STRING == 252
STRING_ADD == 253
STRING_GET == 254
BINARY == 255

\* ------------------------------------------------------------ JSON values
\* A value is a record of one shape; `kind` is the runtime kind the encoder
\* dispatches on, the other fields are the payload of that kind.
Val(kind, str, flag, bits, keys, items) ==
    [kind |-> kind, str |-> str, flag |-> flag, bits |-> bits,
     keys |-> keys, items |-> items]

VNull == Val("null", "", FALSE, <<>>, <<>>, <<>>)
VUndef == Val("undefined", "", FALSE, <<>>, <<>>, <<>>)
VStr(s) == Val("string", s, FALSE, <<>>, <<>>, <<>>)
VFun(src) == Val("function", src, FALSE, <<>>, <<>>, <<>>)
VSym == Val("symbol", "", FALSE, <<>>, <<>>, <<>>)
VBool(b) == Val("boolean", "", b, <<>>, <<>>, <<>>)
\* An integral Number: its two's complement bits, least significant first.
VInt(bits) == Val("number", "", TRUE, bits, <<>>, <<>>)
\* A non-integral Number named by its text; flag f32 says whether it survives
\* the float32 round trip (bits = <<1>>) or not (bits = <<0>>).
VFrac(txt, f32) == Val("number", txt, FALSE, IF f32 THEN <<1>> ELSE <<0>>, <<>>, <<>>)
VLong(bits) == Val("long", "", FALSE, bits, <<>>, <<>>)
VArr(items) == Val("array", "", FALSE, <<>>, <<>>, items)
\* A byte sequence (ArrayBuffer, Buffer, typed array, ByteBuffer): its bytes.
VBytes(bytes) == Val("bytes", "", FALSE, bytes, <<>>, <<>>)
\* A plain object: own enumerable keys in order, and their values.
VObj(keys, items) == Val("object", "", FALSE, <<>>, keys, items)

\* ------------------------------------------------------- 32-bit arithmetic
\* Bit i (from 0) of the two's complement form of the integer n.
Bit(n, i) == IF i >= 31 THEN (IF n < 0 THEN 1 ELSE 0) ELSE (n \div (2 ^ i)) % 2

\* The integer n as w two's complement bits, least significant first.
IntBits(n, w) == [i \in 1..w |-> Bit(n, i - 1)]

\* The Number hi * 2^31 + lo (0 <= lo < 2^31) as NumBits bits.
BigBits(hi, lo) ==
    [i \in 1..NumBits |-> IF i <= 31 THEN Bit(lo, i - 1) ELSE Bit(hi, i - 32)]

\* n |= 0 (ToInt32): the low 32 bits.
ToInt32(v) == [i \in 1..32 |-> IF i <= Len(v) THEN v[i] ELSE v[Len(v)]]

Shl1(x) == [i \in 1..32 |-> IF i = 1 THEN 0 ELSE x[i - 1]]
Sar31(x) == [i \in 1..32 |-> x[32]]
Xor32(x, y) == [i \in 1..32 |-> (x[i] + y[i]) % 2]
Shr7(x) == [i \in 1..32 |-> IF i + 7 <= 32 THEN x[i + 7] ELSE 0]

RECURSIVE LowValue(_, _)
\* The unsigned value of the low k bits of x (k <= 30).
LowValue(x, k) == IF k = 0 THEN 0 ELSE x[k] * (2 ^ (k - 1)) + LowValue(x, k - 1)

\* x <= m for the unsigned 32-bit x and 0 <= m < 2^30.
ULessEq(x, m) == (\A i \in 31..32 : x[i] = 0) /\ LowValue(x, 30) <= m

\* ByteBuffer.zigZagEncode32: (((n |= 0) << 1) ^ (n >> 31)) >>> 0.
zigZagEncode32(v) == LET n == ToInt32(v) IN Xor32(Shl1(n), Sar31(n))

RECURSIVE VarintBytes(_)
\* The bytes writeVarint32 writes for the unsigned 32-bit x: seven bits a
\* byte, low group first, bit 7 set on every byte but the last.
VarintBytes(x) ==
    IF \A i \in 8..32 : x[i] = 0
    THEN <<LowValue(x, 7)>>
    ELSE <<LowValue(x, 7) + 128>> \o VarintBytes(Shr7(x))

\* ------------------------------------------------------------ the byte sink
\* One attempted write on the sink: the method called (op), its argument
\* (n: a byte or an unsigned varint; s: a string; bytes: raw or varint bytes),
\* whether it succeeded (ok), and the sink's byte-order mode at the write (le).
\* role, key and excl record where in the value the write comes from:
\* "key" is the tag of an object key (key: the key, had: whether the
\* dictionary held it, excl: the object's exclusion flag), "str" the tag of a
\* string in value position, "arg" a payload, "val" any other tag.
Tok(op, n, s, bytes, role) ==
    [op |-> op, n |-> n, s |-> s, bytes |-> bytes, role |-> role,
     key |-> "", had |-> FALSE, excl |-> FALSE, ok |-> TRUE, le |-> TRUE]

U8(tag) == Tok("writeUint8", tag, "", <<>>, "val")
Varint32(n) == Tok("writeVarint32", n, "", <<>>, "arg")
VString(s) == Tok("writeVString", 0, s, <<>>, "arg")
KeyTag(tag, key, had, excl) ==
    [Tok("writeUint8", tag, "", <<>>, "key") EXCEPT !.key = key, !.had = had, !.excl = excl]
StrTag(tag, str, had) ==
    [Tok("writeUint8", tag, "", <<>>, "str") EXCEPT !.key = str, !.had = had]

\* Whether the sink fails its i-th write of the call: the write cfg.failAt
\* fails (0: none does), and every later one too when the failure is sticky.
SinkFails(cfg, i) ==
    cfg.failAt # 0 /\ (i = cfg.failAt \/ (cfg.sticky /\ i > cfg.failAt))

\* One write of _encodeValue on the sink.  Once something was thrown
\* (status # "ok") nothing runs until a handler catches it.
Write(st, tok) ==
    IF st.status # "ok" THEN st
    ELSE LET i == st.w + 1
             bad == SinkFails(st.cfg, i)
         IN [st EXCEPT !.w = i,
                       !.log = Append(@, [tok EXCEPT !.ok = ~bad, !.le = st.le]),
                       !.status = IF bad THEN "sink" ELSE "ok"]

\* ------------------------------------------------------------ the dictionary
\* this.dict is a plain object ({}), so a key is one of its property names.
\* this.dict.hasOwnProperty(key): "yes" or "no"; once the dictionary holds the
\* key "hasOwnProperty" the property is a number and the call throws.
HasOwn(dict, key) ==
    IF "hasOwnProperty" \in DOMAIN dict THEN "throw"
    ELSE IF key \in DOMAIN dict THEN "yes" ELSE "no"

\* this.dict[key] = idx.  Assigning a number to "__proto__" of a plain object
\* runs the prototype setter, which ignores it: no own property is made.
DictSet(dict, key, idx) ==
    IF key = "__proto__" THEN dict
    ELSE [k \in (DOMAIN dict) \cup {key} |-> IF k = key THEN idx ELSE dict[k]]

\* this.dict[key] = this.next++, with the order of additions kept in `added`.
DictAdd(st, key) ==
    [st EXCEPT !.dict = DictSet(@, key, st.next), !.next = @ + 1,
               !.added = Append(@, key)]

RECURSIVE Seeded(_, _)
\* The constructor's loop over the first n strings of the seed list.
Seeded(seed, n) ==
    IF n = 0 THEN [dict |-> << >>, next |-> 0, added |-> << >>]
    ELSE LET p == Seeded(seed, n - 1)
         IN [dict |-> DictSet(p.dict, seed[p.next + 1], p.next), next |-> p.next + 1,
             added |-> Append(p.added, seed[p.next + 1])]
\* --------------------------------------------------------- _encodeValue
\* The encoder's state while one encode call runs: st.dict, st.next (and the
\* order of additions, st.added), the sink's log of writes st.log with their
\* count st.w, the sink's byte-order mode st.le, what is being thrown
\* (st.status: "ok" nothing, "sink" a sink failure, "type" a TypeError), and
\* the call's fixed inputs st.cfg (progressive, failAt, sticky).

\* Mutant of encodeString: a progressive Encoder adds a string value that
\* the dictionary lacks, as it does an object key.
encodeString_Adds(str, st) ==
    IF str = "" THEN Write(st, U8(ESTRING))
    ELSE LET h == HasOwn(st.dict, str)
         IN IF h = "throw" THEN [st EXCEPT !.status = "type"]
            ELSE IF h = "yes"
            THEN Write(Write(st, StrTag(STRING_GET, str, TRUE)), Varint32(st.dict[str]))
            ELSE IF st.cfg.progressive
            THEN Write(Write([st EXCEPT !.dict = DictSet(@, str, st.next), !.next = @ + 1,
                                        !.added = Append(@, str)],
                             StrTag(STRING_ADD, str, FALSE)), VString(str))
            ELSE Write(Write(st, StrTag(T_STRING, str, FALSE)), VString(str))

\* case 'string' (a function falls through with its source text).
encodeString(str, st) ==
    IF str = "" THEN Write(st, U8(ESTRING))
    ELSE LET h == HasOwn(st.dict, str)
         IN IF h = "throw" THEN [st EXCEPT !.status = "type"]
            ELSE IF h = "yes"
            THEN Write(Write(st, StrTag(STRING_GET, str, TRUE)), Varint32(st.dict[str]))
            ELSE Write(Write(st, StrTag(T_STRING, str, FALSE)), VString(str))

\* buf.writeVarint32ZigZag(val): the varint bytes of zigZagEncode32(val).
writeVarint32ZigZag(bits) ==
    Tok("writeVarint32ZigZag", 0, "", VarintBytes(zigZagEncode32(bits)), "arg")

\* case 'number'.
encodeNumber(val, st) ==
    IF val.flag
    THEN LET zzval == zigZagEncode32(val.bits)
         IN IF ULessEq(zzval, MAX)
            THEN Write(st, U8(LowValue(zzval, 8)))
            ELSE Write(Write(st, U8(INTEGER)), writeVarint32ZigZag(val.bits))
    ELSE IF val.bits = <<1>>
         THEN Write(Write(st, U8(FLOAT)), Tok("writeFloat32", 0, val.str, <<>>, "arg"))
         ELSE Write(Write(st, U8(DOUBLE)), Tok("writeFloat64", 0, val.str, <<>>, "arg"))

\* The own enumerable properties of the ByteBuffer that ByteBuffer.wrap
\* returns (val after line 139), in the order its constructor sets them.
WrappedKeys == <<"buffer", "offset", "markedOffset", "limit", "littleEndian", "noAssert">>

Wrapped(val) ==
    VObj(WrappedKeys,
         <<val, VInt(IntBits(0, NumBits)), VInt(IntBits(-1, NumBits)),
           VInt(IntBits(Len(val.bits), NumBits)), VBool(FALSE), VBool(FALSE)>>)

\* Mutant of CountPresent: every key is counted, its value undefined or not.
CountPresent_AllKeys(val) == Len(val.keys)

\* The number of keys whose value is not undefined (lines 145-148).
CountPresent(val) ==
    Cardinality({i \in 1..Len(val.keys) : val.items[i].kind # "undefined"})

\* Truthiness of a value (the !! of line 154).
Truthy(v) ==
    CASE v.kind \in {"null", "undefined"} -> FALSE
      [] v.kind = "string" -> v.str # ""
      [] v.kind = "boolean" -> v.flag
      [] v.kind = "number" /\ v.flag -> \E i \in 1..Len(v.bits) : v.bits[i] = 1
      [] OTHER -> TRUE

\* !!val._PSON_EXCL_ for an object whose marker, if any, is an own property.
Marker(val) ==
    \E i \in 1..Len(val.keys) : val.keys[i] = "_PSON_EXCL_" /\ Truthy(val.items[i])

\* Line 154: if (!excluded) excluded = !!val._PSON_EXCL_.
Excluded(excluded, val) == IF ~excluded THEN Marker(val) ELSE excluded

\* Mutant of NestedExcluded: the object's flag is handed down to its values.
NestedExcluded_Inherits(excluded) == excluded

\* The third argument of the recursive call of line 172.
NestedExcluded(excluded) == FALSE

\* Mutant of Adds: the mode is not looked at.
Adds_IgnoresMode(progressive, excluded) == ~excluded

\* Whether a key not in the dictionary is added to it (line 162).
Adds(progressive, excluded) == progressive /\ ~excluded

\* Lines 158-171: one object key.
encodeKey(key, st, excluded) ==
    LET h == HasOwn(st.dict, key)
    IN IF h = "throw" THEN [st EXCEPT !.status = "type"]
       ELSE IF h = "yes"
       THEN Write(Write(st, KeyTag(STRING_GET, key, TRUE, excluded)),
                  Varint32(st.dict[key]))
       ELSE IF Adds(st.cfg.progressive, excluded)
       THEN Write(Write(DictAdd(st, key), KeyTag(STRING_ADD, key, FALSE, excluded)),
                  VString(key))
       ELSE Write(Write(st, KeyTag(T_STRING, key, FALSE, excluded)), VString(key))

\* Lines 140-142: the three writes of a byte sequence.
writeBinary(val, st) ==
    Write(Write(Write(st, U8(BINARY)), Varint32(Len(val.bits))),
          Tok("append", 0, "", val.bits, "arg"))

\* What the catch of line 143 catches of the try block's writes: anything.
Caught(status) == status # "ok"

RECURSIVE encodeValue(_, _, _)
RECURSIVE encodeItems(_, _, _)
RECURSIVE encodeFields(_, _, _, _)

\* Lines 144-174: the object branch, in the catch block.
encodeObject(val, st, excluded) ==
    IF CountPresent(val) = 0 THEN Write(st, U8(EOBJECT))
    ELSE encodeFields(val, 1,
                      Write(Write(st, U8(OBJECT)), Varint32(CountPresent(val))),
                      Excluded(excluded, val))

\* Lines 155-173: the loop over the keys, from key i on.
encodeFields(val, i, st, excluded) ==
    IF i > Len(val.keys) \/ st.status # "ok" THEN st
    ELSE IF val.items[i].kind = "undefined" THEN encodeFields(val, i + 1, st, excluded)
    ELSE encodeFields(val, i + 1,
                      encodeValue(val.items[i], encodeKey(val.keys[i], st, excluded),
                                  NestedExcluded(excluded)),
                      excluded)

\* Lines 130-132: the loop over an array's elements, from element i on.
encodeItems(val, i, st) ==
    IF i > Len(val.items) \/ st.status # "ok" THEN st
    ELSE encodeItems(val, i + 1, encodeValue(val.items[i], st, FALSE))

\* Lines 138-143: a value that ByteBuffer.wrap accepts.  A sink failure in
\* the try block is caught like a failure of wrap, and the catch block then
\* encodes val, by now the wrapped ByteBuffer, as an object.
encodeBinary(val, st, excluded) ==
    LET s1 == writeBinary(val, st)
    IN IF Caught(s1.status)
       THEN encodeObject(Wrapped(val), [s1 EXCEPT !.status = "ok"], excluded)
       ELSE s1

encodeValue(val, st, excluded) ==
    IF st.status # "ok" THEN st
    ELSE CASE val.kind = "null" -> Write(st, U8(NULL))
           [] val.kind \in {"function", "string"} -> encodeString(val.str, st)
           [] val.kind = "number" -> encodeNumber(val, st)
           [] val.kind = "boolean" -> Write(st, U8(IF val.flag THEN T_TRUE ELSE T_FALSE))
           [] val.kind = "array" ->
                IF Len(val.items) = 0 THEN Write(st, U8(EARRAY))
                ELSE encodeItems(val, 1, Write(Write(st, U8(ARRAY)), Varint32(Len(val.items))))
           [] val.kind = "long" ->
                Write(Write(st, U8(LONG)), Tok("writeVarint64ZigZag", 0, "", val.bits, "arg"))
           [] val.kind = "bytes" -> encodeBinary(val, st, excluded)
           [] val.kind = "object" -> encodeObject(val, st, excluded)
           [] val.kind = "undefined" -> Write(st, U8(NULL))
           [] OTHER -> st
\* ------------------------------------------------------------------ state
VARIABLES
    progressive,  \* this.progressive
    dict,         \* this.dict: key -> index
    next,         \* this.next
    seed,         \* the constructor's dict argument
    added,        \* history: the keys of all additions to this.dict, in order
    sent,         \* history: the keys whose STRING_ADD and string were written
    calls,        \* the number of encode calls made
    json,         \* the latest call's value
    buf,          \* the latest call's sink: supplied by the caller or not, its
                  \* littleEndian before and after the call, flipped or not
    log,          \* the latest call's writes on the sink, in order
    result,       \* how the latest call ended: "returned", "threw", or "none"
    thrown,       \* what it threw: "sink", "type", or "ok" (nothing)
    pre           \* dict, next, added and sent when the latest call began

vars == <<progressive, dict, next, seed, added, sent, calls, json, buf, log,
          result, thrown, pre>>

\* buf.LE(): the mode while _encodeValue runs (line 61).
LE(littleEndian) == TRUE

\* Mutant of RestoredMode: the catch does not restore the mode, which stays
\* what buf.LE() made it.
RestoredMode_ReturnOnly(le, status) == IF status = "ok" THEN le ELSE TRUE

\* buf.littleEndian = le, on return (line 62) and in the catch (line 65).
RestoredMode(le, status) == le

\* Whether write i of the log is a key tag `tag` written with its payload.
Complete(lg, i, tag) ==
    /\ lg[i].role = "key" /\ lg[i].n = tag /\ lg[i].ok
    /\ i < Len(lg) /\ lg[i + 1].ok

RECURSIVE SentBy(_, _)
\* The keys of the STRING_ADDs completely written among the first n writes.
SentBy(lg, n) ==
    IF n = 0 THEN << >>
    ELSE IF Complete(lg, n, STRING_ADD) THEN Append(SentBy(lg, n - 1), lg[n].key)
    ELSE SentBy(lg, n - 1)

\* The constructor (lines 38-44).
Construct(dictArg, prog) ==
    LET c == Seeded(dictArg, Len(dictArg))
    IN /\ progressive = prog
       /\ dict = c.dict
       /\ next = c.next
       /\ seed = dictArg
       /\ added = c.added
       /\ sent = << >>
       /\ calls = 0
       /\ json = VNull
       /\ buf = [supplied |-> FALSE, before |-> FALSE, littleEndian |-> FALSE,
                 flipped |-> FALSE]
       /\ log = << >>
       /\ result = "none"
       /\ thrown = "ok"
       /\ pre = [dict |-> c.dict, next |-> c.next, added |-> c.added, sent |-> << >>]

\* encode(val, buf) (lines 53-68).  supplied: whether the caller gives the
\* sink, whose mode is then mode; the sink fails as failAt and sticky say.
EncodeCall(val, supplied, mode, failAt, sticky) ==
    LET le == IF supplied THEN mode ELSE FALSE
        st0 == [dict |-> dict, next |-> next, added |-> added, log |-> << >>,
                w |-> 0, le |-> LE(le), status |-> "ok",
                cfg |-> [progressive |-> progressive, failAt |-> failAt,
                         sticky |-> sticky]]
    IN /\ calls < MaxCalls
       /\ \E r \in {encodeValue(val, st0, FALSE)} :
           /\ calls' = calls + 1
           /\ json' = val
           /\ pre' = [dict |-> dict, next |-> next, added |-> added, sent |-> sent]
           /\ dict' = r.dict
           /\ next' = r.next
           /\ added' = r.added
           /\ sent' = sent \o SentBy(r.log, Len(r.log))
           /\ log' = r.log
           /\ result' = IF r.status = "ok" THEN "returned" ELSE "threw"
           /\ thrown' = r.status
           /\ buf' = [supplied |-> supplied, before |-> le,
                      littleEndian |-> RestoredMode(le, r.status),
                      flipped |-> (r.status = "ok" /\ ~supplied)]
           /\ UNCHANGED <<progressive, seed>>

\* ------------------------------------------------------------------ inputs
Num(n) == VInt(IntBits(n, NumBits))
Excl == "_PSON_EXCL_"

Seeds ==
    {<< >>, <<"a">>, <<"b", "a">>, <<"a", "a">>, <<"__proto__", "a">>,
     <<"hasOwnProperty">>, <<Excl, "b">>}

Leaves ==
    {VNull, VUndef, VStr(""), VStr("a"), VStr("b"), VFun("a"), VSym,
     Num(1), Num(-1000), VFrac("0.5", TRUE), VFrac("0.1", FALSE),
     VLong(<<1, 0, 1>>), VBool(TRUE), VBytes(<<7, 8>>),
     VArr(<< >>), VObj(<< >>, << >>)}

Objects ==
    {VObj(<<"a">>, <<Num(1)>>),
     VObj(<<"b", "a">>, <<Num(1), VBool(FALSE)>>),
     VObj(<<"a">>, <<VUndef>>),
     VObj(<<"a", "b">>, <<VUndef, VUndef>>),
     VObj(<<"a", "b">>, <<VUndef, Num(1)>>),
     VObj(<<"a", "b">>, <<VStr("b"), VUndef>>),
     VObj(<<"a">>, <<VStr("a")>>),
     VObj(<<"a">>, <<VSym>>),
     VObj(<<"a">>, <<VBytes(<<7>>)>>),
     VObj(<<"a">>, <<VObj(<<"a">>, <<VNull>>)>>),
     VObj(<<"a", "b">>, <<VObj(<<"b">>, <<VUndef>>), VNull>>),
     VObj(<<"__proto__">>, <<Num(1)>>),
     VObj(<<"hasOwnProperty">>, <<Num(1)>>),
     VObj(<<Excl, "a">>, <<VBool(TRUE), Num(1)>>),
     VObj(<<"a", Excl>>, <<VObj(<<"b">>, <<Num(1)>>), Num(1)>>),
     VObj(<<Excl, "a">>, <<VStr("yes"), VObj(<<"a">>, <<VNull>>)>>),
     VObj(<<Excl, "a">>, <<VBool(FALSE), Num(1)>>),
     VObj(<<Excl, "a">>, <<VUndef, Num(1)>>),
     VObj(<<"b">>,
          <<VObj(<<Excl, "a">>, <<VBool(TRUE), VObj(<<"a">>, <<VUndef>>)>>)>>)}

Arrays ==
    {VArr(<<VStr("a"), VUndef, VStr("")>>),
     VArr(<<VObj(<<"a">>, <<Num(1)>>), VObj(<<"a">>, <<Num(2)>>)>>),
     VArr(<<VStr("a"), VObj(<<"a">>, <<VStr("a")>>), VStr("a")>>),
     VArr(<<VObj(<<Excl, "a">>, <<Num(1), VNull>>), VObj(<<"a">>, <<VNull>>)>>),
     VArr(<<VObj(<<"__proto__">>, <<VNull>>), VObj(<<"__proto__">>, <<VNull>>)>>)}

Values == Leaves \cup Objects \cup Arrays

\* ----------------------------------------------------------- specifications
Init == \E s \in Seeds, p \in BOOLEAN : Construct(s, p)

\* Calls on a sink that never fails.
Next ==
    \E val \in Values, supplied \in BOOLEAN :
        EncodeCall(val, supplied, TRUE, 0, FALSE)

Spec == Init /\ [][Next]_vars
\* Integral Numbers hi * 2^31 + lo around the small-integer threshold and the
\* ends of the 32-bit range, and two non-integral ones.
HiParts == (-(2 ^ (NumBits - 32))) .. (2 ^ (NumBits - 32) - 1)
LoParts == {0, 1, 119, 120, 121, 1000, 1073741824, 2147483527, 2147483528, 2147483647}
Numbers ==
    {VInt(BigBits(hi, lo)) : hi \in HiParts, lo \in LoParts}
        \cup {VFrac("0.5", TRUE), VFrac("0.1", FALSE)}

\* Calls that encode one Number each.
NextNum == \E val \in Numbers : EncodeCall(val, TRUE, FALSE, 0, FALSE)

SpecNum == Init /\ [][NextNum]_vars

\* Values for the calls whose sink may fail: one of each kind that writes.
FailValues ==
    {VNull, VStr("a"), Num(-1000), VLong(<<1, 0, 1>>), VBool(TRUE), VBytes(<<7, 8>>),
     VArr(<<VStr("b"), VBool(FALSE)>>),
     VObj(<<"a">>, <<Num(1)>>),
     VObj(<<"a">>, <<VBytes(<<7>>)>>),
     VObj(<<Excl, "a">>, <<VBool(TRUE), VObj(<<"b">>, <<VNull>>)>>)}

FailSeeds == {<< >>, <<"a">>, <<"hasOwnProperty">>}

InitFail == \E s \in FailSeeds, p \in BOOLEAN : Construct(s, p)

\* Calls on a sink that fails at write failAt (0: never), once or from then
\* on; the caller supplies the sink, in either byte order, or does not.
NextFail ==
    \E val \in FailValues, supplied \in BOOLEAN, mode \in BOOLEAN,
       failAt \in 0..MaxFail, sticky \in BOOLEAN :
        /\ failAt = 0 => ~sticky
        /\ ~supplied => ~mode
        /\ EncodeCall(val, supplied, mode, failAt, sticky)

SpecFail == InitFail /\ [][NextFail]_vars

\* ------------------------------------------------------------------ claims
\* The integer a zigzag varint stands for, as NumBits two's complement bits:
\* the bytes' seven-bit groups, low group first, make the unsigned u, and the
\* integer is (u >> 1) XOR -(u AND 1).
VarintBit(bytes, j) ==
    IF j > 7 * Len(bytes) THEN 0
    ELSE (bytes[((j - 1) \div 7) + 1] \div (2 ^ ((j - 1) % 7))) % 2

ZigZagDecode(bytes) ==
    [i \in 1..NumBits |-> (VarintBit(bytes, i + 1) + VarintBit(bytes, 1)) % 2]

\* Whether the integral Number of these bits is in the small-integer range,
\* the integers whose zigzag form is at most MAX.
SmallInteger(bits) == \E n \in (-((MAX + 1) \div 2)) .. (MAX \div 2) : bits = IntBits(n, NumBits)

\* C4: an integral Number outside the small-integer range is written as tag
\* INTEGER and a zigzag varint that decodes back to the Number.
C4_IntegerRoundTrip ==
    (calls > 0 /\ result = "returned" /\ json.kind = "number" /\ json.flag
        /\ ~SmallInteger(json.bits))
    => /\ Len(log) = 2
       /\ log[1].op = "writeUint8" /\ log[1].n = INTEGER
       /\ log[2].op = "writeVarint32ZigZag"
       /\ ZigZagDecode(log[2].bytes) = json.bits

\* The same for the Numbers of the signed 32-bit range only.
C4_Int32RoundTrip ==
    (calls > 0 /\ result = "returned" /\ json.kind = "number" /\ json.flag
        /\ ~SmallInteger(json.bits)
        /\ \A i \in 32..NumBits : json.bits[i] = json.bits[32])
    => /\ Len(log) = 2
       /\ log[1].op = "writeUint8" /\ log[1].n = INTEGER
       /\ log[2].op = "writeVarint32ZigZag"
       /\ ZigZagDecode(log[2].bytes) = json.bits
\* The writes of the latest call that failed.
Failed == {i \in 1..Len(log) : ~log[i].ok}

\* C2: a sink failure at any write aborts the call: the call throws the
\* failure and writes nothing after the failing write.
C2_SinkFailureAborts ==
    \A i \in Failed :
        /\ result = "threw" /\ thrown = "sink"
        /\ \A j \in 1..Len(log) : j > i => ~log[j].ok

\* C3: a caller's sink has, after the call, the byte order it had before, on
\* return and on a throw, and every write of the call is made little-endian.
C3_ByteOrderRestored ==
    (calls > 0 /\ buf.supplied)
    => /\ buf.littleEndian = buf.before
       /\ \A i \in 1..Len(log) : log[i].le

\* A call on a caller's big-endian sink that a sink failure ended.
C3_Witness ==
    /\ calls > 0 /\ buf.supplied /\ ~buf.before
    /\ result = "threw" /\ thrown = "sink" /\ Len(log) > 1

\* The keys of the STRING_ADDs completely written before write i of the
\* latest call, over all calls.
SentBefore(i) == pre.sent \o SentBy(log, i - 1)

\* Whether write i of the log is a STRING_GET tag written with its index.
GetWritten(lg, i) ==
    /\ lg[i].role \in {"key", "str"} /\ lg[i].n = STRING_GET /\ lg[i].ok
    /\ i < Len(lg) /\ lg[i + 1].ok

\* C10: every STRING_GET index written is the index of a seed string or of a
\* key whose STRING_ADD and string were completely written before it.
C10_GetRefersToSent ==
    \A i \in 1..Len(log) :
        GetWritten(log, i)
        => LET idx == log[i + 1].n
           IN \/ idx < Len(seed)
              \/ /\ idx - Len(seed) < Len(SentBefore(i))
                 /\ SentBefore(i)[idx - Len(seed) + 1] = log[i].key
\* ---------------------------------------------- claims about the dictionary
\* The object-key tags of the latest call that were written with their payload.
KeysWritten ==
    {i \in 1..Len(log) : log[i].role = "key" /\ log[i].ok /\ i < Len(log) /\ log[i + 1].ok}

\* The string-value tags of the latest call that were written with their payload.
StringsWritten ==
    {i \in 1..Len(log) : log[i].role = "str" /\ log[i].ok /\ i < Len(log) /\ log[i + 1].ok}

\* The keys of the STRING_ADD tags among the writes of a log, in order.
AddTags(lg) == SelectSeq(lg, LAMBDA t : t.role = "key" /\ t.n = STRING_ADD)

Range(seq) == {seq[i] : i \in 1..Len(seq)}

NoDuplicates(seq) == \A i, j \in 1..Len(seq) : seq[i] = seq[j] => i = j

\* The number of distinct keys added before the first addition of k.
DistinctBefore(seq, k) ==
    LET first == CHOOSE i \in 1..Len(seq) : seq[i] = k /\ \A j \in 1..(i - 1) : seq[j] # k
    IN Cardinality({seq[j] : j \in 1..(first - 1)})

\* The keys added to the dictionary before write i of the latest call.
AddedBefore(i) ==
    Range(pre.added) \cup {log[j].key : j \in {m \in 1..(i - 1) : log[m].role = "key"
                                                   /\ log[m].n = STRING_ADD}}

\* C1: the n-th distinct key ever added (seed strings, then keys added while
\* encoding) has index n-1, and every later encoding of it as an object key
\* is STRING_GET with that index.
C1_NthKeyHasIndex ==
    /\ \A k \in Range(added) : k \in DOMAIN dict /\ dict[k] = DistinctBefore(added, k)
    /\ \A i \in KeysWritten :
           log[i].key \in AddedBefore(i)
           => log[i].n = STRING_GET /\ log[i + 1].n = DistinctBefore(added, log[i].key)

\* C6: on a progressive Encoder a key that the dictionary lacks, met in an
\* object that is not excluded, is written as STRING_ADD + key the first
\* time and as STRING_GET + index every later time: no key has two STRING_ADDs.
C6_AddOnceThenGet ==
    progressive
    => /\ NoDuplicates(sent)
       /\ \A i \in KeysWritten :
              LET k == log[i].key
                  met == \E j \in 1..(i - 1) :
                             log[j].role = "key" /\ log[j].key = k /\ ~log[j].excl
              IN /\ (~log[i].excl /\ k \notin DOMAIN pre.dict /\ ~met)
                        => log[i].n = STRING_ADD /\ log[i + 1].s = k
                 /\ (k \in Range(pre.sent) \/ met)
                        => log[i].n = STRING_GET /\ log[i + 1].n = dict[k]
\* The dictionary the constructor makes of the seed list.
SeededDict == Seeded(seed, Len(seed)).dict

\* C5: a static Encoder's dictionary and counter stay as constructed, and it
\* writes an object key of the seeded dictionary as STRING_GET + index and
\* any other object key as T_STRING + key.
C5_StaticNeverGrows ==
    ~progressive
    => /\ dict = SeededDict /\ next = Len(seed)
       /\ \A i \in KeysWritten :
              IF log[i].key \in DOMAIN SeededDict
              THEN log[i].n = STRING_GET /\ log[i + 1].op = "writeVarint32"
                   /\ log[i + 1].n = SeededDict[log[i].key]
              ELSE log[i].n = T_STRING /\ log[i + 1].op = "writeVString"
                   /\ log[i + 1].s = log[i].key

\* A static Encoder wrote one key from its dictionary and one as a string.
C5_Witness ==
    /\ ~progressive /\ result = "returned"
    /\ \E i, j \in KeysWritten : log[i].n = STRING_GET /\ log[j].n = T_STRING

RECURSIVE OwnerMarks(_)
RECURSIVE FieldMarks(_, _)
RECURSIVE ItemMarks(_, _)
\* For every object key that encoding the value v reaches, in encoding order:
\* the key, and whether the object that owns it carries a truthy marker.
OwnerMarks(v) ==
    CASE v.kind = "object" -> FieldMarks(v, 1)
      [] v.kind = "array" -> ItemMarks(v, 1)
      [] OTHER -> << >>

FieldMarks(v, i) ==
    IF i > Len(v.keys) THEN << >>
    ELSE IF v.items[i].kind = "undefined" THEN FieldMarks(v, i + 1)
    ELSE <<[key |-> v.keys[i], marked |-> Marker(v)]>>
             \o OwnerMarks(v.items[i]) \o FieldMarks(v, i + 1)

ItemMarks(v, i) ==
    IF i > Len(v.items) THEN << >>
    ELSE OwnerMarks(v.items[i]) \o ItemMarks(v, i + 1)

\* The object-key tags of the latest call, in order.
KeyTags == SelectSeq(log, LAMBDA t : t.role = "key")

\* C7: on a progressive Encoder the keys of an object with a truthy marker
\* are never added (STRING_GET if the dictionary holds the key, else
\* T_STRING), while an object without its own marker, nested or not, adds
\* each key the dictionary lacks with STRING_ADD.
C7_ExclusionIsPerObject ==
    (progressive /\ result = "returned")
    => LET owners == OwnerMarks(json)
       IN /\ Len(KeyTags) = Len(owners)
          /\ AddTags(log) = SelectSeq(KeyTags, LAMBDA t : ~t.had /\ ~t.excl)
          /\ added = pre.added \o [i \in 1..Len(AddTags(log)) |-> AddTags(log)[i].key]
          /\ \A i \in 1..Len(owners) :
                 /\ KeyTags[i].key = owners[i].key
                 /\ KeyTags[i].excl = owners[i].marked
                 /\ KeyTags[i].had => KeyTags[i].n = STRING_GET
                 /\ (owners[i].marked /\ ~KeyTags[i].had) => KeyTags[i].n = T_STRING
                 /\ (~owners[i].marked /\ ~KeyTags[i].had) => KeyTags[i].n = STRING_ADD
          /\ \A i \in KeysWritten :
                 /\ log[i].key \in DOMAIN pre.dict => log[i].had
                 /\ IF log[i].had
                    THEN log[i].key \in DOMAIN dict /\ log[i + 1].n = dict[log[i].key]
                    ELSE log[i + 1].s = log[i].key

\* A marked object's key was written as a string and, after it, a key of an
\* unmarked object nested in it was added.
C7_Witness ==
    /\ progressive /\ result = "returned"
    /\ json.kind = "object" /\ Marker(json)
    /\ \E i, j \in KeysWritten :
           /\ i < j /\ log[i].excl /\ log[i].n = T_STRING
           /\ ~log[j].excl /\ log[j].n = STRING_ADD
RECURSIVE Strip(_)
RECURSIVE StripFields(_, _)
\* The value v without the fields, of its objects at any depth, whose value
\* is Absent (undefined).
Strip(v) ==
    CASE v.kind = "object" ->
             LET f == StripFields(v, 1) IN VObj(f.keys, f.items)
      [] v.kind = "array" -> VArr([i \in 1..Len(v.items) |-> Strip(v.items[i])])
      [] OTHER -> v

StripFields(v, i) ==
    IF i > Len(v.keys) THEN [keys |-> << >>, items |-> << >>]
    ELSE LET rest == StripFields(v, i + 1)
         IN IF v.items[i].kind = "undefined" THEN rest
            ELSE [keys |-> <<v.keys[i]>> \o rest.keys,
                  items |-> <<Strip(v.items[i])>> \o rest.items]

\* The encoder at the start of the latest call, on a sink that never fails.
PreState ==
    [dict |-> pre.dict, next |-> pre.next, added |-> pre.added, log |-> << >>,
     w |-> 0, le |-> TRUE, status |-> "ok",
     cfg |-> [progressive |-> progressive, failAt |-> 0, sticky |-> FALSE]]

\* The fields of the object v whose value is not Absent.
Present(v) == {i \in 1..Len(v.keys) : v.items[i].kind # "undefined"}

\* C8: Absent-valued fields are as if not there: the call writes, and leaves
\* the dictionary, as for the value without them; the count after OBJECT is
\* the number of pairs written; an object of Absent fields only is EOBJECT.
C8_AbsentFieldsOmitted ==
    (calls > 0 /\ Failed = {})
    => /\ LET r == encodeValue(Strip(json), PreState, FALSE)
          IN r.log = log /\ r.dict = dict /\ r.next = next /\ r.added = added
       /\ (json.kind = "object" /\ Present(json) = {}) => log = <<[U8(EOBJECT) EXCEPT !.le = TRUE]>>
       /\ (json.kind = "object" /\ Present(json) # {} /\ result = "returned"
               /\ \A i \in Present(json) : json.items[i].kind \notin {"object", "array", "bytes"})
          => /\ log[1].n = OBJECT /\ log[2].n = Cardinality(Present(json))
             /\ Len(KeyTags) = Cardinality(Present(json))
             /\ \A i \in 1..Len(json.keys) :
                    (\E j \in 1..Len(KeyTags) : KeyTags[j].key = json.keys[i])
                        <=> i \in Present(json)

\* An object with an Absent field and a present one was encoded with count 1.
C8_Witness ==
    /\ result = "returned" /\ json.kind = "object"
    /\ Len(json.keys) = 2 /\ Cardinality(Present(json)) = 1
    /\ log[1].n = OBJECT /\ log[2].n = 1

\* Whether encoding v meets no object key (and no byte sequence).
NoKeys(v) == OwnerMarks(v) = << >>

\* C9: a string in value position never changes the dictionary or the
\* counter: the dictionary grows by the STRING_ADD keys of object keys only.
\* A string the dictionary holds is written as STRING_GET + index, any other
\* non-empty string as T_STRING + the string.
C9_StringValuesNeverAdd ==
    (calls > 0 /\ Failed = {})
    => /\ next = pre.next + Len(AddTags(log))
       /\ added = pre.added \o [i \in 1..Len(AddTags(log)) |-> AddTags(log)[i].key]
       /\ NoKeys(json) => dict = pre.dict /\ next = pre.next
       /\ \A i \in StringsWritten :
              /\ log[i].key # ""
              /\ log[i].key \in DOMAIN pre.dict => log[i].had
              /\ IF log[i].had
                 THEN /\ log[i].key \in DOMAIN dict
                      /\ log[i].n = STRING_GET /\ log[i + 1].op = "writeVarint32"
                      /\ log[i + 1].n = dict[log[i].key]
                 ELSE /\ log[i].n = T_STRING /\ log[i + 1].op = "writeVString"
                      /\ log[i + 1].s = log[i].key
       /\ (json.kind = "string" /\ json.str # "" /\ result = "returned")
          => log[1].role = "str" /\ log[1].had = (json.str \in DOMAIN pre.dict)

\* A progressive Encoder wrote a string as T_STRING, added the same string
\* as an object key, and then wrote the string as STRING_GET.
C9_Witness ==
    /\ progressive /\ result = "returned"
    /\ \E i, j \in StringsWritten, k \in KeysWritten :
           /\ i < k /\ k < j
           /\ log[i].n = T_STRING /\ log[k].n = STRING_ADD /\ log[j].n = STRING_GET
           /\ log[i].key = log[k].key /\ log[j].key = log[k].key
====
